---- MODULE Spec2Model ----
(***************************************************************************)
(* Model of healthcareai/supervised_model_trainer.py:                      *)
(* SupervisedModelTrainer (constructor, the public training methods, the   *)
(* nice_training_output context manager) and ContextManagerModel.          *)
(*                                                                         *)
(* Calls into collaborator modules are recorded as events in a log, in the *)
(* order the code makes them.  What a collaborator returns or raises is an *)
(* input of the action.                                                    *)
(***************************************************************************)
EXTENDS Integers, Sequences, FiniteSets, TLC

VARIABLES
    status,            \* "none" | "constructed" | "failed" (constructor raised)
    ctor,              \* the constructor's arguments and the step that raised
    ctor_log,          \* collaborator calls made by the constructor, in order
    advanced_trainer,  \* self._advanced_trainer
    call,              \* the last public method invocation and its inputs
    log,               \* events of the last invocation, in order
    result             \* how the last invocation ended

vars == <<status, ctor, ctor_log, advanced_trainer, call, log, result>>

(***************************************************************************)
(* Input domains                                                           *)
(***************************************************************************)
\* Number of distinct dataframes, trained-model objects and library errors.
MaxDataframes == 1
MaxModels == 2
MaxErrors == 1

Dataframes == 1..MaxDataframes
TrainedModels == {"tsm" \o ToString(i) : i \in 1..MaxModels}
Errors == {"error" \o ToString(i) : i \in 1..MaxErrors}

None == "None"

\* A Python str object: its characters and whether it is the very object of
\* the interned literal (CPython interns identifier-like literals; a string
\* built at run time, e.g. read from a file, is equal but not identical).
StrObj(v, i) == [value |-> v, interned |-> i]

ModelTypes ==
    { StrObj("classification", TRUE), StrObj("classification", FALSE),
      StrObj("regression", TRUE), StrObj("regression", FALSE),
      StrObj("other", FALSE) }

GrainColumns == {None, "id"}
PredictedColumns == {"y"}
FeatureLimits == {5, 15}

\* x is 'literal'
Is(s, literal) == s.value = literal /\ s.interned

\* What a library call does: returns a value or raises an error.
Ok(v) == [kind |-> "ok", value |-> v]
Raise(e) == [kind |-> "raise", value |-> e]
TrainOutcomes == {Ok(m) : m \in TrainedModels} \cup {Raise(e) : e \in Errors}
\* plot_rf_features_from_tsm and print_training_results return nothing or
\* raise an error of their own.
PlotOutcomes == {Ok(None), Raise("PlotError")}
ResultsOutcomes == {Ok(None), Raise("ResultsError")}

\* How a method ends.
Return(v) == [kind |-> "return", value |-> v]

Count(s, op) == Len(SelectSeq(s, LAMBDA e : e.op = op))

(***************************************************************************)
(* Collaborator objects                                                    *)
(***************************************************************************)
RawDataframe(d) == [kind |-> "raw", id |-> d]

\* hcai_pipelines.full_pipeline(model_type, predicted_column, grain_column,
\* impute=...): a new pipeline object; id tells the two objects apart.
full_pipeline(id, model_type, predicted_column, grain_column, impute) ==
    [id |-> id, model_type |-> model_type,
     predicted_column |-> predicted_column, grain_column |-> grain_column,
     impute |-> impute]

\* pipeline.fit_transform(dataframe): the dataframe cleaned by that pipeline.
fit_transform(pipeline, dataframe) ==
    [kind |-> "clean", id |-> dataframe.id, by |-> pipeline.id,
     impute |-> pipeline.impute]

\* dataframe.columns.values
columns(dataframe) == [columns_of |-> dataframe.kind, id |-> dataframe.id]

\* AdvancedSupervisedModelTrainer.is_classification: whether the trainer's
\* type says classification.
is_classification(model_type) == model_type.value = "classification"

\* AdvancedSupervisedModelTrainer(...): keeps its arguments; no pipeline, no
\* split and no categorical info yet.
AdvancedSupervisedModelTrainer(dataframe, model_type, predicted_column, grain_column, original_column_names, binary_positive_label, verbose) ==
    [dataframe |-> dataframe, model_type |-> model_type,
     predicted_column |-> predicted_column, grain_column |-> grain_column,
     original_column_names |-> original_column_names,
     binary_positive_label |-> binary_positive_label, verbose |-> verbose,
     is_classification |-> is_classification(model_type),
     pipeline |-> [id |-> 0], x_train |-> None,
     categorical_column_info |-> [of |-> None]]

\* calculate_categorical_frequencies(dataframe=..., columns_to_ignore=[...])
calculate_categorical_frequencies(dataframe, columns_to_ignore) ==
    [of |-> dataframe.kind, id |-> dataframe.id, ignored |-> columns_to_ignore]

(***************************************************************************)
(* SupervisedModelTrainer.__init__                                         *)
(***************************************************************************)
\* The steps that call code which may raise.  The two cardinality checks
\* (steps 3, 4) warn the user and allow them to proceed; step 8 is a plain
\* attribute assignment.
RaisingSteps == {1, 2, 5, 6, 7, 9, 10}

CtorArgs ==
    [dataframe : Dataframes, predicted_column : PredictedColumns,
     model_type : ModelTypes, impute : BOOLEAN, grain_column : GrainColumns,
     binary_positive_label : {None}, verbose : {FALSE},
     warn_high : BOOLEAN, warn_one : BOOLEAN]

\* CtorTrace with the prediction pipeline built from the caller's impute flag.
CtorTrace_caller_impute(a) ==
    LET dataframe == RawDataframe(a.dataframe)
        pipeline == full_pipeline(1, a.model_type, a.predicted_column,
                                  a.grain_column, a.impute)
        prediction_pipeline == full_pipeline(2, a.model_type,
                                             a.predicted_column,
                                             a.grain_column, a.impute)
        clean_dataframe == fit_transform(pipeline, dataframe)
    IN << [op |-> "full_pipeline", made |-> pipeline],
          [op |-> "full_pipeline", made |-> prediction_pipeline],
          [op |-> "check_high_cardinality", dataframe |-> dataframe,
           exclusions |-> a.grain_column, warned |-> a.warn_high],
          [op |-> "check_one_cardinality", dataframe |-> dataframe,
           warned |-> a.warn_one],
          [op |-> "fit_transform", pipeline |-> pipeline,
           dataframe |-> dataframe],
          [op |-> "fit_transform", pipeline |-> prediction_pipeline,
           dataframe |-> dataframe],
          [op |-> "AdvancedSupervisedModelTrainer",
           made |-> AdvancedSupervisedModelTrainer(
                        clean_dataframe, a.model_type, a.predicted_column,
                        a.grain_column, columns(dataframe),
                        a.binary_positive_label, a.verbose)],
          [op |-> "set_pipeline", pipeline |-> prediction_pipeline],
          [op |-> "train_test_split"],
          [op |-> "calculate_categorical_frequencies",
           made |-> calculate_categorical_frequencies(
                        dataframe, <<a.grain_column, a.predicted_column>>)] >>

\* CtorTrace with train_test_split called before the pipeline is saved.
CtorTrace_split_first(a) ==
    LET dataframe == RawDataframe(a.dataframe)
        pipeline == full_pipeline(1, a.model_type, a.predicted_column,
                                  a.grain_column, a.impute)
        prediction_pipeline == full_pipeline(2, a.model_type,
                                             a.predicted_column,
                                             a.grain_column, TRUE)
        clean_dataframe == fit_transform(pipeline, dataframe)
    IN << [op |-> "full_pipeline", made |-> pipeline],
          [op |-> "full_pipeline", made |-> prediction_pipeline],
          [op |-> "check_high_cardinality", dataframe |-> dataframe,
           exclusions |-> a.grain_column, warned |-> a.warn_high],
          [op |-> "check_one_cardinality", dataframe |-> dataframe,
           warned |-> a.warn_one],
          [op |-> "fit_transform", pipeline |-> pipeline,
           dataframe |-> dataframe],
          [op |-> "fit_transform", pipeline |-> prediction_pipeline,
           dataframe |-> dataframe],
          [op |-> "AdvancedSupervisedModelTrainer",
           made |-> AdvancedSupervisedModelTrainer(
                        clean_dataframe, a.model_type, a.predicted_column,
                        a.grain_column, columns(dataframe),
                        a.binary_positive_label, a.verbose)],
          [op |-> "train_test_split"],
          [op |-> "set_pipeline", pipeline |-> prediction_pipeline],
          [op |-> "calculate_categorical_frequencies",
           made |-> calculate_categorical_frequencies(
                        dataframe, <<a.grain_column, a.predicted_column>>)] >>

\* The constructor's calls in program order.
CtorTrace(a) ==
    LET dataframe == RawDataframe(a.dataframe)
        pipeline == full_pipeline(1, a.model_type, a.predicted_column,
                                  a.grain_column, a.impute)
        prediction_pipeline == full_pipeline(2, a.model_type,
                                             a.predicted_column,
                                             a.grain_column, TRUE)
        clean_dataframe == fit_transform(pipeline, dataframe)
    IN << [op |-> "full_pipeline", made |-> pipeline],
          [op |-> "full_pipeline", made |-> prediction_pipeline],
          [op |-> "check_high_cardinality", dataframe |-> dataframe,
           exclusions |-> a.grain_column, warned |-> a.warn_high],
          [op |-> "check_one_cardinality", dataframe |-> dataframe,
           warned |-> a.warn_one],
          [op |-> "fit_transform", pipeline |-> pipeline,
           dataframe |-> dataframe],
          [op |-> "fit_transform", pipeline |-> prediction_pipeline,
           dataframe |-> dataframe],
          [op |-> "AdvancedSupervisedModelTrainer",
           made |-> AdvancedSupervisedModelTrainer(
                        clean_dataframe, a.model_type, a.predicted_column,
                        a.grain_column, columns(dataframe),
                        a.binary_positive_label, a.verbose)],
          [op |-> "set_pipeline", pipeline |-> prediction_pipeline],
          [op |-> "train_test_split"],
          [op |-> "calculate_categorical_frequencies",
           made |-> calculate_categorical_frequencies(
                        dataframe, <<a.grain_column, a.predicted_column>>)] >>

\* Before the constructor assigns it, self._advanced_trainer does not exist.
NoTrainer == [exists |-> FALSE]

\* The effect of one constructor step on self._advanced_trainer.
CtorStep(at, e) ==
    IF e.op = "AdvancedSupervisedModelTrainer" THEN e.made
    ELSE IF e.op = "set_pipeline" THEN [at EXCEPT !.pipeline = e.pipeline]
    ELSE IF e.op = "train_test_split" THEN [at EXCEPT !.x_train = "x_train"]
    ELSE IF e.op = "calculate_categorical_frequencies"
    THEN [at EXCEPT !.categorical_column_info = e.made]
    ELSE at

\* self._advanced_trainer after the steps of trace, applied in order.
RECURSIVE CtorAdvancedTrainer(_)
CtorAdvancedTrainer(trace) ==
    IF trace = <<>> THEN NoTrainer
    ELSE CtorStep(CtorAdvancedTrainer(SubSeq(trace, 1, Len(trace) - 1)),
                  trace[Len(trace)])

\* SupervisedModelTrainer(dataframe, predicted_column, model_type, ...).
\* fail = 0: every step returns; fail = k: the call of step k raises and the
\* constructor ends there without an object.
SupervisedModelTrainer_init ==
    /\ status = "none"
    /\ \E a \in CtorArgs, fail \in {0} \cup RaisingSteps :
         LET trace == CtorTrace(a)
             \* the step that raises was called; its result never arrives
             done == IF fail = 0 THEN trace ELSE SubSeq(trace, 1, fail)
             applied == IF fail = 0 THEN trace ELSE SubSeq(trace, 1, fail - 1)
         IN
         /\ ctor' = [args |-> a, fail |-> fail]
         /\ ctor_log' = done
         /\ status' = IF fail = 0 THEN "constructed" ELSE "failed"
         /\ advanced_trainer' = CtorAdvancedTrainer(applied)
    /\ UNCHANGED <<call, log, result>>

(***************************************************************************)
(* nice_training_output and the public training methods.                   *)
(* Each operator gives the events of one invocation and how it ends:       *)
(* [log, trained_model, outcome].  env holds what the collaborators do     *)
(* during the invocation:                                                  *)
(*   env.train              the training routine returns a model or raises *)
(*   env.plot               plot_rf_features_from_tsm returns or raises    *)
(*   env.results            print_training_results returns or raises       *)
(***************************************************************************)
TrainRoutines ==
    {"knn", "random_forest_regressor", "random_forest_classifier",
     "logistic_regression", "linear_regression", "lasso_regression",
     "ensemble_classification", "ensemble_regression"}

IsTrain(e) == e.op \in TrainRoutines

\* trained_model.algorithm_name
algorithm_name(m) == "algorithm of " \o m

\* ContextManagerModel(model_name, trained_model=None)
ContextManagerModel(model_name) ==
    [model_name |-> model_name, trained_model |-> None]

\* nice_training_output where a `return` under `with` leaves without
\* resuming the generator.
nice_training_output_return_skips(self, model_name, body, env) ==
    LET temp_model == ContextManagerModel(model_name)
        header == [op |-> "print", text |-> "Training",
                   model_name |-> temp_model.model_name,
                   with_classes |-> self.is_classification]
    IN  [log |-> <<header>> \o body.log, outcome |-> body.outcome]

\* nice_training_output with the yield wrapped in try/finally, so that the
\* metrics are displayed on every exit.
nice_training_output_finally(self, model_name, body, env) ==
    LET temp_model == ContextManagerModel(model_name)
        header == [op |-> "print", text |-> "Training",
                   model_name |-> temp_model.model_name,
                   with_classes |-> self.is_classification]
        entered == <<header>> \o body.log
    IN  IF body.trained_model = None
        THEN [log |-> entered, outcome |-> Raise("AttributeError")]
        ELSE [log |-> entered \o <<[op |-> "print_training_results",
                                    model |-> body.trained_model]>>,
              outcome |-> IF env.results.kind = "raise"
                          THEN Raise(env.results.value)
                          ELSE body.outcome]

\* `with self.nice_training_output(model_name) as model: <body>`.
\* body is what the block under `with` did with the yielded model.
nice_training_output(self, model_name, body, env) ==
    LET temp_model == ContextManagerModel(model_name)
        header == [op |-> "print", text |-> "Training",
                   model_name |-> temp_model.model_name,
                   with_classes |-> self.is_classification]
        entered == <<header>> \o body.log
    IN  IF body.outcome.kind = "raise"
        THEN \* thrown into the generator at the yield; nothing catches it
             [log |-> entered, outcome |-> body.outcome]
        ELSE IF body.trained_model = None
        THEN \* None has no print_training_results
             [log |-> entered, outcome |-> Raise("AttributeError")]
        ELSE [log |-> entered \o <<[op |-> "print_training_results",
                                    model |-> body.trained_model]>>,
              outcome |-> IF env.results.kind = "raise"
                          THEN Raise(env.results.value)
                          ELSE body.outcome]

\* model.trained_model = self._advanced_trainer.<routine>(...)
\* return model.trained_model
TrainAndReturn(event, env) ==
    IF env.train.kind = "ok"
    THEN [log |-> <<event>>, trained_model |-> env.train.value,
          outcome |-> Return(env.train.value)]
    ELSE [log |-> <<event>>, trained_model |-> None,
          outcome |-> Raise(env.train.value)]

knn(self, env) ==
    nice_training_output(self, "KNN",
        TrainAndReturn([op |-> "knn", scoring_metric |-> "accuracy",
                        hyperparameter_grid |-> None,
                        randomized_search |-> TRUE], env),
        env)

random_forest_regression(self, env) ==
    nice_training_output(self, "Random Forest Regression",
        TrainAndReturn([op |-> "random_forest_regressor", trees |-> 200,
                        scoring_metric |-> "neg_mean_squared_error",
                        randomized_search |-> TRUE], env),
        env)

random_forest_classification(self, feature_importance_limit, save_plot, env) ==
    LET trained == TrainAndReturn(
                       [op |-> "random_forest_classifier", trees |-> 200,
                        scoring_metric |-> "accuracy",
                        randomized_search |-> TRUE], env)
        plot == [op |-> "plot_rf_features_from_tsm",
                 model |-> trained.trained_model,
                 x_train |-> self.x_train,
                 feature_limit |-> feature_importance_limit,
                 save |-> save_plot]
        body == IF trained.outcome.kind = "raise" THEN trained
                ELSE [trained EXCEPT
                        !.log = @ \o <<plot>>,
                        !.outcome = IF env.plot.kind = "raise"
                                    THEN Raise(env.plot.value) ELSE @]
    IN  nice_training_output(self, "Random Forest Classification", body, env)

random_forest(self, feature_importance_limit, save_plot, env) ==
    IF Is(self.model_type, "classification")
    THEN random_forest_classification(self, feature_importance_limit,
                                      save_plot, env)
    ELSE IF Is(self.model_type, "regression")
    THEN random_forest_regression(self, env)
    ELSE \* falls off the end of the function
         [log |-> <<>>, outcome |-> Return(None)]

logistic_regression(self, env) ==
    nice_training_output(self, "Logistic Regression",
        TrainAndReturn([op |-> "logistic_regression",
                        randomized_search |-> FALSE], env),
        env)

linear_regression(self, env) ==
    nice_training_output(self, "Linear Regression",
        TrainAndReturn([op |-> "linear_regression",
                        randomized_search |-> FALSE], env),
        env)

lasso_regression(self, env) ==
    nice_training_output(self, "Lasso Regression",
        TrainAndReturn([op |-> "lasso_regression",
                        randomized_search |-> FALSE], env),
        env)

ensemble(self, env) ==
    LET classification == Is(self.model_type, "classification")
        regression == ~classification /\ Is(self.model_type, "regression")
        metric == IF classification THEN "accuracy"
                  ELSE "neg_mean_squared_error"
        routine == IF classification THEN "ensemble_classification"
                   ELSE "ensemble_regression"
        trained == TrainAndReturn([op |-> routine,
                                   scoring_metric |-> metric], env)
        best == [op |-> "print", text |-> "best algorithm found",
                 metric |-> metric,
                 algorithm_name |-> algorithm_name(trained.trained_model)]
        body == IF ~(classification \/ regression)
                THEN \* `metric` was never assigned
                     [log |-> <<>>, trained_model |-> None,
                      outcome |-> Raise("UnboundLocalError")]
                ELSE IF trained.outcome.kind = "raise" THEN trained
                ELSE [trained EXCEPT !.log = @ \o <<best>>]
    IN  nice_training_output(self, "ensemble " \o self.model_type.value, body, env)

(***************************************************************************)
(* Invocations of the public methods on a constructed trainer              *)
(***************************************************************************)
Envs == [train : TrainOutcomes, plot : {Ok(None)}, results : ResultsOutcomes]

PlotEnvs == [train : TrainOutcomes, plot : PlotOutcomes, results : ResultsOutcomes]

Invoke(method, args, env, r) ==
    /\ status = "constructed"
    /\ call' = [method |-> method, args |-> args, env |-> env]
    /\ log' = r.log
    /\ result' = r.outcome
    /\ UNCHANGED <<status, ctor, ctor_log, advanced_trainer>>

Call_random_forest ==
    \E limit \in FeatureLimits, save \in BOOLEAN, env \in PlotEnvs :
        Invoke("random_forest", <<limit, save>>, env,
               random_forest(advanced_trainer, limit, save, env))

Call_knn ==
    \E env \in Envs : Invoke("knn", <<>>, env, knn(advanced_trainer, env))

Call_random_forest_regression ==
    \E env \in Envs :
        Invoke("random_forest_regression", <<>>, env,
               random_forest_regression(advanced_trainer, env))

Call_random_forest_classification ==
    \E limit \in FeatureLimits, save \in BOOLEAN, env \in PlotEnvs :
        Invoke("random_forest_classification", <<limit, save>>, env,
               random_forest_classification(advanced_trainer, limit, save, env))

Call_logistic_regression ==
    \E env \in Envs :
        Invoke("logistic_regression", <<>>, env,
               logistic_regression(advanced_trainer, env))

Call_linear_regression ==
    \E env \in Envs :
        Invoke("linear_regression", <<>>, env,
               linear_regression(advanced_trainer, env))

Call_lasso_regression ==
    \E env \in Envs :
        Invoke("lasso_regression", <<>>, env,
               lasso_regression(advanced_trainer, env))

Call_ensemble ==
    \E env \in Envs :
        Invoke("ensemble", <<>>, env, ensemble(advanced_trainer, env))

(***************************************************************************)
(* Specification                                                           *)
(***************************************************************************)
NoEnv == [train |-> Raise(None), plot |-> Ok(None), results |-> Ok(None)]

Init ==
    /\ status = "none"
    /\ ctor = [args |-> [impute |-> TRUE], fail |-> 0]
    /\ ctor_log = <<>>
    /\ advanced_trainer = NoTrainer
    /\ call = [method |-> "none", args |-> <<>>, env |-> NoEnv]
    /\ log = <<>>
    /\ result = [kind |-> "none", value |-> None]

Next ==
    \/ SupervisedModelTrainer_init
    \/ Call_random_forest
    \/ Call_knn
    \/ Call_random_forest_regression
    \/ Call_random_forest_classification
    \/ Call_logistic_regression
    \/ Call_linear_regression
    \/ Call_lasso_regression
    \/ Call_ensemble

Spec == Init /\ [][Next]_vars

(***************************************************************************)
(* Properties                                                              *)
(***************************************************************************)
Positions(s, P(_)) == {i \in DOMAIN s : P(s[i])}

\* Every position of A comes before every position of B, and B needs an A.
Precedes(A, B) ==
    /\ \A x \in A, y \in B : x < y
    /\ B # {} => A # {}

Invoked == call.method # "none"

TrainCalls == Positions(log, IsTrain)
Headers == Positions(log, LAMBDA e : e.op = "print" /\ e.text = "Training")
BestMessages ==
    Positions(log, LAMBDA e : e.op = "print" /\ e.text = "best algorithm found")
ResultPrints == Positions(log, LAMBDA e : e.op = "print_training_results")
Plots == Positions(log, LAMBDA e : e.op = "plot_rf_features_from_tsm")

\* C1: random_forest on a 'classification' trainer calls the classification
\* routine exactly once with the caller's feature_importance_limit and
\* save_plot and returns its result; on a 'regression' trainer it calls the
\* regression routine exactly once and returns its result; it never calls
\* the routine of the other type.
C1_RandomForestDispatches ==
    call.method = "random_forest" =>
        LET value == advanced_trainer.model_type.value
            classifier == Count(log, "random_forest_classifier")
            regressor == Count(log, "random_forest_regressor")
        IN  /\ value = "classification" =>
                /\ classifier = 1 /\ regressor = 0
                /\ \A i \in Plots : /\ log[i].feature_limit = call.args[1]
                                    /\ log[i].save = call.args[2]
                /\ result.kind = "return" => result.value = call.env.train.value
            /\ value = "regression" =>
                /\ regressor = 1 /\ classifier = 0
                /\ result.kind = "return" => result.value = call.env.train.value

\* C2: a public training method that returns, returns the trained model the
\* advanced trainer returned during that invocation, never None.
C2_ReturnsTrainedModel ==
    (Invoked /\ result.kind = "return") =>
        /\ result.value # None
        /\ result.value \in TrainedModels
        /\ call.env.train.kind = "ok"
        /\ result.value = call.env.train.value

\* C3: in every invocation that trains, the 'Training ...' header is printed
\* before the training routine is called, and when the method returns to
\* its caller print_training_results of the trained model has been called
\* exactly once, after the training routine returned.
C3_OutputWrapsTraining ==
    (Invoked /\ TrainCalls # {}) =>
        /\ Precedes(Headers, TrainCalls)
        /\ Cardinality(Headers) = 1
        /\ Cardinality(ResultPrints) <= 1
        /\ \A r \in ResultPrints : /\ r = Len(log)
                                   /\ log[r].model = call.env.train.value
        /\ Precedes(TrainCalls, ResultPrints)
        /\ result.kind = "return" => Cardinality(ResultPrints) = 1

C3_Witness ==
    /\ call.method = "knn"
    /\ result = Return(call.env.train.value)
    /\ Cardinality(ResultPrints) = 1

\* C4: when the training routine raises, that same error reaches the caller,
\* the routine was called once only, print_training_results was not called
\* and no model is returned.
C4_TrainingErrorPropagates ==
    (Invoked /\ TrainCalls # {} /\ call.env.train.kind = "raise") =>
        /\ result = Raise(call.env.train.value)
        /\ Cardinality(TrainCalls) = 1
        /\ ResultPrints = {}
        /\ result.kind # "return"

C4_Witness ==
    /\ call.method = "logistic_regression"
    /\ call.env.train.kind = "raise"
    /\ TrainCalls # {}
    /\ result.kind = "raise"

CtorPositions(op) == Positions(ctor_log, LAMBDA e : e.op = op)

FitsOf(id) ==
    Positions(ctor_log, LAMBDA e : e.op = "fit_transform" /\ e.pipeline.id = id)

\* C5: after construction the clean training dataframe comes from a pipeline
\* built with the caller's impute value, and the pipeline saved on the
\* advanced trainer is the other one, built with impute=True.
C5_ImputeOnlyForTraining ==
    status = "constructed" =>
        LET built == {ctor_log[i].made : i \in CtorPositions("full_pipeline")}
            training == {p \in built : p.id = advanced_trainer.dataframe.by}
        IN  /\ Cardinality(built) = 2
            /\ Cardinality(training) = 1
            /\ \A p \in training : /\ p.impute = ctor.args.impute
                                   /\ advanced_trainer.pipeline.id # p.id
            /\ advanced_trainer.dataframe.impute = ctor.args.impute
            /\ advanced_trainer.pipeline \in built
            /\ advanced_trainer.pipeline.impute = TRUE

C5_Witness ==
    /\ status = "constructed"
    /\ ctor.args.impute = FALSE
    /\ advanced_trainer.pipeline.impute = TRUE

C7_EnsembleByModelType ==
    call.method = "ensemble" =>
        LET value == advanced_trainer.model_type.value
            routine == IF value = "classification"
                       THEN "ensemble_classification"
                       ELSE "ensemble_regression"
            metric == IF value = "classification" THEN "accuracy"
                      ELSE "neg_mean_squared_error"
        IN  IF value \in {"classification", "regression"}
            THEN /\ Cardinality(TrainCalls) = 1
                 /\ \A t \in TrainCalls : /\ log[t].op = routine
                                          /\ log[t].scoring_metric = metric
                 /\ call.env.train.kind = "ok" =>
                        /\ Cardinality(BestMessages) = 1
                        /\ \A b \in BestMessages :
                               /\ log[b].metric = metric
                               /\ log[b].algorithm_name =
                                      algorithm_name(call.env.train.value)
                        /\ Precedes(TrainCalls, BestMessages)
                        /\ Precedes(BestMessages, ResultPrints)
                        /\ Cardinality(ResultPrints) = 1
                 /\ (call.env.train.kind = "ok" /\ call.env.results.kind = "ok")
                        => result = Return(call.env.train.value)
            ELSE /\ TrainCalls = {}
                 /\ ResultPrints = {}
                 /\ result.kind = "raise"

====
